---- MODULE Spec2Model ----
(***************************************************************************)
(* Model of the triangle detector of the hair-imaging service:            *)
(*   api/src/triangle_detector.py  (get_smallest_triangle and helpers)    *)
(*   api/src/image_processor.py    (ImageProcessor.process_detections)    *)
(*                                                                         *)
(* Points are pairs <<x, y>> of small integers.            On such points  *)
(* every product and sum of the source is computed exactly by the float   *)
(* arithmetic of the source, so comparisons are modelled exactly:          *)
(*   - a quotient n / d is compared through n * d and d * d;               *)
(*   - atan2 angles (all in [0, pi) around the anchor) are compared        *)
(*     through the sign of a cross product;                                *)
(*   - areas are kept doubled (triangle_area_x2) to stay in the integers.  *)
(* The module triangle_detector.py defines convex_hull, triangle_area and  *)
(* point_in_triangle twice; Python binds the name to the LAST definition,  *)
(* which is therefore the one every call reaches and the one modelled.     *)
(***************************************************************************)
EXTENDS Integers, Sequences, FiniteSets, TLC

\* ---------------------------------------------------------------- bounds
MaxX == 1           \* x ranges over 0..MaxX
MaxY == 2           \* y ranges over 0..MaxY
MaxLen == 4         \* longest grid contour handed to get_smallest_triangle
MaxHullLen == 5     \* longest point list handed directly to convex_hull
MaxTokens == 3      \* most word pieces joined into one class label
MaxBatch == 3       \* most detections in one batch handed to the report
MaxRequests == 2     \* most /api/process-image requests in flight at once
MaxPreds == 2       \* most predictions in one workflow response

Points == (0..MaxX) \X (0..MaxY)
\* Python's None: the absent triangle, written as the empty tuple so that it
\* compares with any point list.
None == <<>>

\* All sequences over S of length 0..n.
SeqsUpTo(S, n) == UNION {[1..k -> S] : k \in 0..n}

\* The set of elements of a sequence.
Range(s) == {s[i] : i \in 1..Len(s)}

Abs(x) == IF x < 0 THEN -x ELSE x

\* ------------------------------------------------------ geometry primitives

\* cross_product_2d(a, b, c): (b - a) x (c - a).
cross_product_2d(a, b, c) ==
    (b[1] - a[1]) * (c[2] - a[2]) - (b[2] - a[2]) * (c[1] - a[1])

\* Twice triangle_area(triangle) (second definition): |v1 x v2|; the source
\* divides by 2.  A list that has not exactly 3 points has area 0.
triangle_area_x2(triangle) ==
    IF Len(triangle) # 3 THEN 0
    ELSE LET p0 == triangle[1]
             v1 == <<triangle[2][1] - p0[1], triangle[2][2] - p0[2]>>
             v2 == <<triangle[3][1] - p0[1], triangle[3][2] - p0[2]>>
         IN  Abs(v1[1] * v2[2] - v1[2] * v2[1])

\* point_in_triangle(point, triangle) (second definition, the one bound to
\* the name).  inv_denom = 1 / denom raises ZeroDivisionError when the
\* denominator is 0.0; otherwise u = nu / denom and v = nv / denom and the
\* result is u >= 0 and v >= 0 and u + v <= 1.
point_in_triangle(point, triangle) ==
    LET p1 == triangle[1]
        v0 == <<triangle[3][1] - p1[1], triangle[3][2] - p1[2]>>
        v1 == <<triangle[2][1] - p1[1], triangle[2][2] - p1[2]>>
        v2 == <<point[1] - p1[1], point[2] - p1[2]>>
        dot00 == v0[1] * v0[1] + v0[2] * v0[2]
        dot01 == v0[1] * v1[1] + v0[2] * v1[2]
        dot02 == v0[1] * v2[1] + v0[2] * v2[2]
        dot11 == v1[1] * v1[1] + v1[2] * v1[2]
        dot12 == v1[1] * v2[1] + v1[2] * v2[2]
        denom == dot00 * dot11 - dot01 * dot01
        nu == dot11 * dot02 - dot01 * dot12
        nv == dot00 * dot12 - dot01 * dot02
    IN  IF denom = 0 THEN "ZeroDivisionError"
        ELSE IF nu * denom >= 0 /\ nv * denom >= 0
                /\ (nu + nv) * denom <= denom * denom
             THEN "True" ELSE "False"

\* all_points_in_triangle(triangle, points): all(...) over a generator; it
\* stops at the first False and propagates the first exception.
RECURSIVE all_points_in_triangle(_, _)
all_points_in_triangle(triangle, points) ==
    IF points = <<>> THEN "True"
    ELSE LET r == point_in_triangle(Head(points), triangle)
         IN  IF r = "True" THEN all_points_in_triangle(triangle, Tail(points))
             ELSE r

\* ------------------------------------------------------------- convex hull

\* The duplicate removal of convex_hull: keep the first occurrence of each
\* point, in order (the 1e-9 tolerance is equality on grid points).
RECURSIVE remove_duplicates(_, _)
remove_duplicates(points, unique_points) ==
    IF points = <<>> THEN unique_points
    ELSE remove_duplicates(Tail(points),
            IF Head(points) \in Range(unique_points) THEN unique_points
            ELSE Append(unique_points, Head(points)))

\* min(unique_points, key=lambda p: (p[1], p[0])): lowest y, then lowest x.
hull_start(unique_points) ==
    CHOOSE s \in Range(unique_points) :
        \A p \in Range(unique_points) :
            s[2] < p[2] \/ (s[2] = p[2] /\ s[1] <= p[1])

\* polar_angle(p) < polar_angle(q) around start.  Every other point is above
\* the anchor or right of it on its row, so both atan2 values lie in [0, pi)
\* and compare as the cross product of the two directions.
polar_angle_less(start, p, q) ==
    (p[1] - start[1]) * (q[2] - start[2])
        - (p[2] - start[2]) * (q[1] - start[1]) > 0

\* insert_by_angle for a sort that is not stable: a point is put before the
\* points of equal angle already sorted, so ties come out reversed.
RECURSIVE insert_by_angle_ties_reversed(_, _, _)
insert_by_angle_ties_reversed(start, sorted_points, p) ==
    IF sorted_points = <<>> THEN <<p>>
    ELSE IF ~polar_angle_less(start, Head(sorted_points), p)
         THEN <<p>> \o sorted_points
         ELSE <<Head(sorted_points)>>
                 \o insert_by_angle_ties_reversed(start, Tail(sorted_points), p)

\* sorted(other_points, key=polar_angle): Python's sort is stable, so points
\* of equal angle keep their input order; the key has no distance component.
RECURSIVE insert_by_angle(_, _, _)
insert_by_angle(start, sorted_points, p) ==
    IF sorted_points = <<>> THEN <<p>>
    ELSE IF polar_angle_less(start, p, Head(sorted_points))
         THEN <<p>> \o sorted_points
         ELSE <<Head(sorted_points)>>
                 \o insert_by_angle(start, Tail(sorted_points), p)

RECURSIVE sort_by_angle(_, _, _)
sort_by_angle(start, other_points, sorted_points) ==
    IF other_points = <<>> THEN sorted_points
    ELSE sort_by_angle(start, Tail(other_points),
            insert_by_angle(start, sorted_points, Head(other_points)))

\* The inner while loop of the scan: pop while the turn is not a left turn.
RECURSIVE hull_pop(_, _)
hull_pop(hull, point) ==
    IF Len(hull) > 1
       /\ cross_product_2d(hull[Len(hull) - 1], hull[Len(hull)], point) <= 0
    THEN hull_pop(SubSeq(hull, 1, Len(hull) - 1), point)
    ELSE hull

\* The for loop of the scan.
RECURSIVE hull_scan(_, _)
hull_scan(hull, sorted_points) ==
    IF sorted_points = <<>> THEN hull
    ELSE hull_scan(Append(hull_pop(hull, Head(sorted_points)),
                          Head(sorted_points)),
                   Tail(sorted_points))

\* convex_hull(points) (second definition, the one bound to the name).
convex_hull(points) ==
    IF Len(points) < 3 THEN points
    ELSE LET unique_points == remove_duplicates(points, <<>>)
         IN  IF Len(unique_points) < 3 THEN unique_points
             ELSE LET start == hull_start(unique_points)
                      other_points == SelectSeq(unique_points,
                                                LAMBDA p : p # start)
                      sorted_points == sort_by_angle(start, other_points, <<>>)
                  IN  hull_scan(<<start>>, sorted_points)


\* ------------------------------------------- smallest_enclosing_triangle

\* list(set(points)): the distinct points, in the iteration order of a hash
\* set, which the language leaves unspecified: any order of the distinct
\* points.
set_orders(points) ==
    LET S == Range(points)
        n == Cardinality(S)
    IN  {f \in [1..n -> S] : \A i, j \in 1..n : i # j => f[i] # f[j]}

\* Loop positions <<i, j, k>> are visited in lexicographic order.
lex_less(a, b) ==
    \/ a[1] < b[1]
    \/ a[1] = b[1] /\ a[2] < b[2]
    \/ a[1] = b[1] /\ a[2] = b[2] /\ a[3] < b[3]

\* The outcome of a search loop over the candidates cand[pos], pos in DOMAIN
\* cand (the positions whose candidate reaches the enclosure test).  The
\* loop tests the enclosure of each candidate against points and keeps it
\* when its area is strictly below min_area (inf at first): it ends with the
\* first visited candidate among the enclosing ones of least area, with None
\* when no candidate encloses, and it is left by the exception of the first
\* candidate for which point_in_triangle raises.
search_outcome(cand, points) ==
    LET enclosing == {pos \in DOMAIN cand :
                         all_points_in_triangle(cand[pos], points) = "True"}
        least == {pos \in enclosing : \A q \in enclosing :
                     triangle_area_x2(cand[pos]) <= triangle_area_x2(cand[q])}
    IN  IF \E pos \in DOMAIN cand :
               all_points_in_triangle(cand[pos], points) = "ZeroDivisionError"
        THEN [raised |-> TRUE, best |-> None]
        ELSE IF enclosing = {} THEN [raised |-> FALSE, best |-> None]
        ELSE [raised |-> FALSE,
              best |-> cand[CHOOSE pos \in least :
                               \A q \in least : q = pos \/ lex_less(pos, q)]]

\* smallest_enclosing_triangle lines 96-106: the loops "for i, for j in
\* i+1.., for k in j+1.." over the hull (0-based in the source, 1-based here).
hull_triple_search(hull, points) ==
    LET n == Len(hull)
        visited == {pos \in (1..n) \X (1..n) \X (1..n) :
                       pos[1] < pos[2] /\ pos[2] < pos[3]}
    IN  search_outcome([pos \in visited |->
                           <<hull[pos[1]], hull[pos[2]], hull[pos[3]]>>],
                       points)

\* find_minimum_triangle_advanced lines 189-211: the loops "for i, for j in
\* i+1.., for p3 in hull + points".  A p3 equal to p1 or p2 is skipped, then
\* a triangle of area < 1e-10 is skipped, both before the enclosure test.
extended_search(hull, points) ==
    LET n == Len(hull)
        candidates == hull \o points
        visited == {pos \in (1..n) \X (1..n) \X (1..Len(candidates)) :
                       /\ pos[1] < pos[2]
                       /\ candidates[pos[3]] # hull[pos[1]]
                       /\ candidates[pos[3]] # hull[pos[2]]
                       /\ triangle_area_x2(<<hull[pos[1]], hull[pos[2]],
                                             candidates[pos[3]]>>) # 0}
    IN  search_outcome([pos \in visited |->
                           <<hull[pos[1]], hull[pos[2]], candidates[pos[3]]>>],
                       points)

\* min(points, key=...) and max(points, key=...): the FIRST point of the list
\* that attains the extreme key.
first_min(points, c) ==
    LET i == CHOOSE i \in 1..Len(points) :
                /\ \A k \in 1..Len(points) : points[i][c] <= points[k][c]
                /\ \A k \in 1..(i - 1) : points[k][c] # points[i][c]
    IN  points[i]

first_max(points, c) ==
    LET i == CHOOSE i \in 1..Len(points) :
                /\ \A k \in 1..Len(points) : points[i][c] >= points[k][c]
                /\ \A k \in 1..(i - 1) : points[k][c] # points[i][c]
    IN  points[i]

\* The extreme-point fallback of find_minimum_triangle_advanced: the set of
\* triangles it can return.  extreme_points = list(set(...)) is again in an
\* unspecified order, so extreme_points[:3] is any 3 distinct extremes in
\* any order; with fewer than 3 distinct extremes it is points[:3].
extreme_points(points) ==
    {first_min(points, 1), first_max(points, 1),
     first_min(points, 2), first_max(points, 2)}

\* The fallback answering with three corners of the bounding box of the
\* points instead of three of the points.
heuristic_triangles_bounding_box(points) ==
    LET min_x == first_min(points, 1)[1]
        max_x == first_max(points, 1)[1]
        min_y == first_min(points, 2)[2]
        max_y == first_max(points, 2)[2]
    IN  {<<<<min_x, min_y>>, <<max_x, min_y>>, <<min_x, max_y>>>>}

heuristic_triangles(points) ==
    LET E == extreme_points(points)
    IN  IF Cardinality(E) >= 3
        THEN {t \in [1..3 -> E] : \A i, j \in 1..3 : i # j => t[i] # t[j]}
        ELSE {SubSeq(points, 1, 3)}

\* ------------------------------------------------- find_shortest_side_and_apex

\* distance(p1, p2) squared; sqrt is increasing, so lengths compare as their
\* squares.
distance_sq(p1, p2) ==
    (p2[1] - p1[1]) * (p2[1] - p1[1]) + (p2[2] - p1[2]) * (p2[2] - p1[2])

\* Edge i (0-based) joins triangle[i] and triangle[(i + 1) % 3].
side_start(triangle, i) == triangle[i + 1]
side_end(triangle, i) == triangle[((i + 1) % 3) + 1]

\* The last edge of minimal length, as a scan keeping the later of two equal
\* lengths would pick.
shortest_side_last_tie(triangle) ==
    CHOOSE i \in 0..2 :
        /\ \A k \in 0..2 : distance_sq(side_start(triangle, i), side_end(triangle, i))
                             <= distance_sq(side_start(triangle, k), side_end(triangle, k))
        /\ \A k \in (i + 1)..2 :
              distance_sq(side_start(triangle, k), side_end(triangle, k))
                 # distance_sq(side_start(triangle, i), side_end(triangle, i))

\* min(side_lengths, key=length): the first edge of minimal length.
shortest_side(triangle) ==
    CHOOSE i \in 0..2 :
        /\ \A k \in 0..2 : distance_sq(side_start(triangle, i), side_end(triangle, i))
                             <= distance_sq(side_start(triangle, k), side_end(triangle, k))
        /\ \A k \in 0..(i - 1) :
              distance_sq(side_start(triangle, k), side_end(triangle, k))
                 # distance_sq(side_start(triangle, i), side_end(triangle, i))

\* find_shortest_side_and_apex(triangle).  The midpoint is kept doubled
\* (middle_point_x2 = p1 + p2) to stay in the integers.
find_shortest_side_and_apex(triangle) ==
    IF triangle = None \/ Len(triangle) # 3
    THEN [middle_point_x2 |-> None, apex |-> None]
    ELSE LET side_idx == shortest_side(triangle)
             p1 == side_start(triangle, side_idx)
             p2 == side_end(triangle, side_idx)
         IN  [middle_point_x2 |-> <<p1[1] + p2[1], p1[2] + p2[2]>>,
              apex |-> triangle[((side_idx + 2) % 3) + 1]]


\* ------------------------------------------------------- the solver calls

\* find_minimum_triangle_advanced(points, hull): the outcomes it can have.
\* The search keeps the smallest enclosing candidate; if there is none the
\* extreme-point fallback answers.  steps lists the stages entered.
find_minimum_triangle_advanced(points, hull) ==
    LET acc == extended_search(hull, points)
    IN  IF acc.raised
        THEN {[raised |-> TRUE, triangle |-> None, path |-> "raised",
               steps |-> <<"extended">>]}
        ELSE IF acc.best # None
        THEN {[raised |-> FALSE, triangle |-> acc.best, path |-> "extended",
               steps |-> <<"extended">>]}
        ELSE {[raised |-> FALSE, triangle |-> t,
               path |-> IF Cardinality(extreme_points(points)) >= 3
                        THEN "extreme" ELSE "first3",
               steps |-> <<"extended", "heuristic">>] :
                  t \in heuristic_triangles(points)}

\* smallest_enclosing_triangle(points) after unique_points = list(set(points))
\* came out in the order unique_points (at least 3 distinct points): the
\* outcomes it can have.  A hull of exactly 3 vertices is returned at once;
\* otherwise the hull triples are searched, and find_minimum_triangle_advanced
\* is called when that search found nothing.
smallest_enclosing_triangle(unique_points) ==
    LET hull == convex_hull(unique_points)
        acc == hull_triple_search(hull, unique_points)
    IN  IF Len(hull) = 3
        THEN {[raised |-> FALSE, triangle |-> hull, path |-> "hull3",
               hull |-> hull, steps |-> <<"hull">>]}
        ELSE IF acc.raised
        THEN {[raised |-> TRUE, triangle |-> None, path |-> "raised",
               hull |-> hull, steps |-> <<"hull", "triple">>]}
        ELSE IF acc.best # None
        THEN {[raised |-> FALSE, triangle |-> acc.best, path |-> "triple",
               hull |-> hull, steps |-> <<"hull", "triple">>]}
        ELSE {[raised |-> r.raised, triangle |-> r.triangle, path |-> r.path,
               hull |-> hull, steps |-> <<"hull", "triple">> \o r.steps] :
                  r \in find_minimum_triangle_advanced(unique_points, hull)}

\* emergency_triangle with a type test no list point passes: nothing is
\* collected and None is returned.
emergency_triangle_none(contour) == None

\* The except branch of get_smallest_triangle (lines 52-63): the first three
\* points of the contour, whatever they are.
emergency_triangle(contour) ==
    IF Len(contour) >= 3 THEN SubSeq(contour, 1, 3) ELSE None

\* get_smallest_triangle(contour): the outcomes it can have.  Fewer than 3
\* points return None; fewer than 3 distinct points make
\* smallest_enclosing_triangle raise ValueError; every exception raised below
\* is caught and answered by the emergency triangle.
get_smallest_triangle(contour) ==
    IF Len(contour) < 3
    THEN {[result |-> None, path |-> "too_few", hull |-> <<>>, steps |-> <<>>]}
    ELSE IF Cardinality(Range(contour)) < 3
    THEN {[result |-> emergency_triangle(contour), path |-> "emergency",
           hull |-> <<>>, steps |-> <<"emergency">>]}
    ELSE UNION {
           {IF r.raised
            THEN [result |-> emergency_triangle(contour), path |-> "emergency",
                  hull |-> r.hull, steps |-> Append(r.steps, "emergency")]
            ELSE [result |-> r.triangle, path |-> r.path,
                  hull |-> r.hull, steps |-> r.steps] :
               r \in smallest_enclosing_triangle(order)} :
           order \in set_orders(contour)}

\* The orders unique_points = list(set(points)) (line 80) can come out in;
\* nothing is iterated when the call ends before that line.
hash_orders(contour) ==
    IF Len(contour) < 3 \/ Cardinality(Range(contour)) < 3
    THEN {<<>>}
    ELSE set_orders(contour)

\* get_smallest_triangle(contour) when unique_points comes out in the given
\* order.
get_smallest_triangle_hashed(contour, unique_points) ==
    IF Len(contour) < 3
    THEN {[result |-> None, path |-> "too_few", hull |-> <<>>, steps |-> <<>>]}
    ELSE IF Cardinality(Range(contour)) < 3
    THEN {[result |-> emergency_triangle(contour), path |-> "emergency",
           hull |-> <<>>, steps |-> <<"emergency">>]}
    ELSE {IF r.raised
          THEN [result |-> emergency_triangle(contour), path |-> "emergency",
                hull |-> r.hull, steps |-> Append(r.steps, "emergency")]
          ELSE [result |-> r.triangle, path |-> r.path,
                hull |-> r.hull, steps |-> r.steps] :
             r \in smallest_enclosing_triangle(unique_points)}

\* ----------------------------------------------- get_hair_strand_class_name

\* A string is the sequence of its characters.  A label that is not a string
\* (a number in the upstream JSON) is the one-element list not_a_string.
UpperCase == <<"A", "B", "C", "D", "E", "F", "G", "H", "I", "J", "K", "L", "M",
               "N", "O", "P", "Q", "R", "S", "T", "U", "V", "W", "X", "Y", "Z">>
LowerCase == <<"a", "b", "c", "d", "e", "f", "g", "h", "i", "j", "k", "l", "m",
               "n", "o", "p", "q", "r", "s", "t", "u", "v", "w", "x", "y", "z">>

not_a_string == <<"int">>

\* str.lower() on one character and on a string.
char_lower(c) ==
    IF \E i \in 1..Len(UpperCase) : UpperCase[i] = c
    THEN LowerCase[CHOOSE i \in 1..Len(UpperCase) : UpperCase[i] = c]
    ELSE c

str_lower(str) == [i \in 1..Len(str) |-> char_lower(str[i])]

\* sub in str.
str_contains(sub, str) ==
    \E i \in 0..(Len(str) - Len(sub)) : SubSeq(str, i + 1, i + Len(sub)) = sub

STRONG == <<"s", "t", "r", "o", "n", "g">>
MEDIUM == <<"m", "e", "d", "i", "u", "m">>
WEAK == <<"w", "e", "a", "k">>

\* get_hair_strand_class_name with "weak" tested before "strong".
get_hair_strand_class_name_weak_first(class_name) ==
    IF class_name = <<>> THEN "unknown"
    ELSE IF class_name = not_a_string THEN "AttributeError"
    ELSE LET class_lower == str_lower(class_name)
         IN  IF str_contains(WEAK, class_lower) THEN "weak"
             ELSE IF str_contains(MEDIUM, class_lower) THEN "medium"
             ELSE IF str_contains(STRONG, class_lower) THEN "strong"
             ELSE "unknown"

\* get_hair_strand_class_name(class_name): None and "" are falsy and give
\* "unknown"; a truthy label that is not a string has no lower() and raises
\* AttributeError, returned here as the value "AttributeError".
get_hair_strand_class_name(class_name) ==
    IF class_name = <<>> THEN "unknown"
    ELSE IF class_name = not_a_string THEN "AttributeError"
    ELSE LET class_lower == str_lower(class_name)
         IN  IF str_contains(STRONG, class_lower) THEN "strong"
             ELSE IF str_contains(MEDIUM, class_lower) THEN "medium"
             ELSE IF str_contains(WEAK, class_lower) THEN "weak"
             ELSE "unknown"

\* -------------------------------------------- generate_hair_analysis_report

\* A Python dict is a record; dict.get(key, default).
EmptyDict == <<>>

dict_get(d, key, default) == IF key \in DOMAIN d THEN d[key] ELSE default

\* Confidences are counted in tenths (9 is 0.9).  A confidence that is not a
\* number (null in the upstream JSON) is not_a_number.
not_a_number == -1

\* A quotient a / b of the code is the pair <<a, b>>, never rounded.
quotient(a, b) == <<a, b>>

RECURSIVE seq_sum(_)
seq_sum(values) ==
    IF values = <<>> THEN 0 ELSE Head(values) + seq_sum(Tail(values))

seq_min(values) ==
    CHOOSE v \in Range(values) : \A w \in Range(values) : v <= w

seq_max(values) ==
    CHOOSE v \in Range(values) : \A w \in Range(values) : v >= w

\* calculate_std(values): 0.0 for fewer than 2 values, else the square root
\* of the population variance, kept as the quotient under the root:
\* sum((x - mean)^2) / n = (n * sum(x^2) - sum(x)^2) / n^2.
calculate_std(values) ==
    IF Len(values) < 2
    THEN [sqrt_of |-> quotient(0, 1)]
    ELSE LET n == Len(values)
             squares == [i \in 1..n |-> values[i] * values[i]]
         IN  [sqrt_of |-> quotient(n * seq_sum(squares)
                                     - seq_sum(values) * seq_sum(values), n * n)]

\* f"{n}": the decimal digits of a count.
Digits == <<"0", "1", "2", "3", "4", "5", "6", "7", "8", "9">>

RECURSIVE int_to_str(_)
int_to_str(n) ==
    IF n < 10 THEN <<Digits[n + 1]>>
    ELSE int_to_str(n \div 10) \o <<Digits[(n % 10) + 1]>>

\* f"{a}:{b}"
ratio_str(a, b) == int_to_str(a) \o <<":">> \o int_to_str(b)

\* The loop of lines 344-356 leaving at the first detection of no class.
RECURSIVE class_confidences_until_unknown(_, _)
class_confidences_until_unknown(detections, class_type) ==
    IF detections = <<>> THEN <<>>
    ELSE LET detection == Head(detections)
             hair_class_of == get_hair_strand_class_name(dict_get(detection, "class", <<>>))
             rest == class_confidences_until_unknown(Tail(detections), class_type)
         IN  IF hair_class_of = class_type
             THEN <<dict_get(detection, "confidence", 0)>> \o rest
             ELSE IF hair_class_of = "unknown" THEN <<>>
             ELSE rest

\* The loop of lines 344-356 over the detections: the confidences of the
\* detections whose label maps to the class, in list order.
RECURSIVE class_confidences(_, _)
class_confidences(detections, class_type) ==
    IF detections = <<>> THEN <<>>
    ELSE LET detection == Head(detections)
             rest == class_confidences(Tail(detections), class_type)
         IN  IF get_hair_strand_class_name(dict_get(detection, "class", <<>>)) = class_type
             THEN <<dict_get(detection, "confidence", 0)>> \o rest
             ELSE rest

\* Lines 381-395: the statistics of one class.
class_stats(confidences) ==
    IF confidences # <<>>
    THEN [average |-> quotient(seq_sum(confidences), Len(confidences)),
          min |-> seq_min(confidences),
          max |-> seq_max(confidences),
          count |-> Len(confidences)]
    ELSE [average |-> quotient(0, 1), min |-> 0, max |-> 0, count |-> 0]

\* The total taken over the classes strong and medium only.
sum_class_counts_without_weak(class_counts) ==
    class_counts.strong + class_counts.medium

\* Line 359: sum(class_counts.values()).
sum_class_counts(class_counts) ==
    class_counts.strong + class_counts.medium + class_counts.weak

\* The report of lines 339-434 for a list whose labels and confidences are
\* all usable.
full_report(detections, analysis_results, image_info) ==
    LET confidence_values ==
            [i \in 1..Len(detections) |-> dict_get(detections[i], "confidence", 0)]
        strong_confidences == class_confidences(detections, "strong")
        medium_confidences == class_confidences(detections, "medium")
        weak_confidences == class_confidences(detections, "weak")
        strong_count == Len(strong_confidences)
        medium_count == Len(medium_confidences)
        weak_count == Len(weak_confidences)
        total_count ==
            sum_class_counts([strong |-> strong_count, medium |-> medium_count,
                              weak |-> weak_count])
        percentage(count) ==
            IF total_count > 0 THEN quotient(count * 100, total_count)
            ELSE quotient(0, 1)
        triangle_success_count == Len(analysis_results)
    IN  [total_count |-> total_count,
         class_counts |->
            [strong |-> strong_count, medium |-> medium_count, weak |-> weak_count],
         class_percentages |->
            [strong |-> percentage(strong_count),
             medium |-> percentage(medium_count),
             weak |-> percentage(weak_count)],
         confidence_stats |->
            [overall |->
                [average |->
                    IF confidence_values # <<>>
                    THEN quotient(seq_sum(confidence_values), Len(confidence_values))
                    ELSE quotient(0, 1),
                 min |-> IF confidence_values # <<>> THEN seq_min(confidence_values) ELSE 0,
                 max |-> IF confidence_values # <<>> THEN seq_max(confidence_values) ELSE 0,
                 std |->
                    IF confidence_values # <<>> THEN calculate_std(confidence_values)
                    ELSE [sqrt_of |-> quotient(0, 1)]],
             strong |-> class_stats(strong_confidences),
             medium |-> class_stats(medium_confidences),
             weak |-> class_stats(weak_confidences)],
         ratios |->
            [terminal_vellus |->
                IF weak_count > 0 THEN ratio_str(strong_count, weak_count)
                ELSE int_to_str(strong_count) \o <<":", "0">>,
             strong_medium |->
                IF medium_count > 0 THEN ratio_str(strong_count, medium_count)
                ELSE int_to_str(strong_count) \o <<":", "0">>,
             strong_percentage |-> percentage(strong_count),
             medium_percentage |-> percentage(medium_count),
             weak_percentage |-> percentage(weak_count)],
         triangle_analysis |->
            [successful_triangles |-> triangle_success_count,
             success_rate |->
                IF total_count > 0 THEN quotient(triangle_success_count * 100, total_count)
                ELSE quotient(0, 1)],
         image_info |->
            IF image_info # EmptyDict
            THEN [width |-> dict_get(image_info, "width", 0),
                  height |-> dict_get(image_info, "height", 0),
                  total_pixels |-> dict_get(image_info, "width", 0)
                                      * dict_get(image_info, "height", 0)]
            ELSE EmptyDict]

\* generate_hair_analysis_report with the early return for an empty list
\* left out.
generate_hair_analysis_report_no_early_return(detections, analysis_results, image_info) ==
    IF \E i \in 1..Len(detections) :
          get_hair_strand_class_name(dict_get(detections[i], "class", <<>>))
             = "AttributeError"
    THEN [raised |-> "AttributeError"]
    ELSE IF \E i \in 1..Len(detections) :
               dict_get(detections[i], "confidence", 0) = not_a_number
    THEN [raised |-> "TypeError"]
    ELSE full_report(detections, analysis_results, image_info)

\* generate_hair_analysis_report(detections, analysis_results, image_info).
\* An empty list (or None) returns the four-key report at once.  Otherwise
\* the loop raises AttributeError at a label that is truthy and not a
\* string, and sum() raises TypeError over a confidence that is not a
\* number; a raise is the record [raised |-> ...].
generate_hair_analysis_report(detections, analysis_results, image_info) ==
    IF detections = <<>>
    THEN [total_count |-> 0,
          class_distribution |-> EmptyDict,
          confidence_stats |-> EmptyDict,
          error |-> <<"N", "o", " ", "d", "e", "t", "e", "c", "t", "i", "o", "n", "s",
                      " ", "f", "o", "u", "n", "d">>]
    ELSE IF \E i \in 1..Len(detections) :
               get_hair_strand_class_name(dict_get(detections[i], "class", <<>>))
                  = "AttributeError"
    THEN [raised |-> "AttributeError"]
    ELSE IF \E i \in 1..Len(detections) :
               dict_get(detections[i], "confidence", 0) = not_a_number
    THEN [raised |-> "TypeError"]
    ELSE full_report(detections, analysis_results, image_info)

\* ------------------------------------------ _extract_detections_from_workflow

\* A point of a prediction is a dict: [x |-> 1, y |-> 2], with a key missing,
\* or with a coordinate that float() refuses (not_a_number).
point_usable(p) == "x" \in DOMAIN p /\ "y" \in DOMAIN p

\* _extract_points_from_prediction, case 1 (points as a list of dicts): the
\* points that have both keys; float() raising on any of them is caught and
\* leaves no points.  Without a points list no other shape is present.
extract_points(pred) ==
    LET pts == dict_get(pred, "points", <<>>)
        kept == SelectSeq(pts, point_usable)
    IN  IF \E i \in 1..Len(kept) : kept[i].x = not_a_number \/ kept[i].y = not_a_number
        THEN <<>>
        ELSE kept

\* f"det_{n}"
det_id(n) == <<"d", "e", "t", "_">> \o int_to_str(n)

\* d.get("detection_id") or d.get("id") or fallback: the first of the three
\* that is not empty.
id_or(d, fallback) ==
    IF dict_get(d, "detection_id", <<>>) # <<>> THEN d.detection_id
    ELSE IF dict_get(d, "id", <<>>) # <<>> THEN d.id
    ELSE fallback

\* Lines 97-118: the predictions that are dicts, each turned into a
\* detection; the others are passed over.
RECURSIVE extract_from(_, _)
extract_from(predictions_list, detections) ==
    IF predictions_list = <<>> THEN detections
    ELSE LET pred == Head(predictions_list)
         IN  IF "not_a_dict" \in DOMAIN pred
             THEN extract_from(Tail(predictions_list), detections)
             ELSE extract_from(
                     Tail(predictions_list),
                     Append(detections,
                            [points |-> extract_points(pred),
                             confidence |-> dict_get(pred, "confidence", 0),
                             class |-> dict_get(pred, "class",
                                                <<"u", "n", "k", "n", "o", "w", "n">>),
                             detection_id |-> id_or(pred, det_id(Len(detections))),
                             bbox |-> [x |-> dict_get(pred, "x", 0),
                                       y |-> dict_get(pred, "y", 0),
                                       width |-> dict_get(pred, "width", 0),
                                       height |-> dict_get(pred, "height", 0)]]))

\* _extract_detections_from_workflow(workflow_result, confidence_threshold):
\* the threshold is only printed, at line 120.
extract_detections_from_workflow(predictions_list, confidence_threshold) ==
    extract_from(predictions_list, <<>>)

\* The default of the confidence parameter of run_workflow (line 34), in
\* tenths.
DEFAULT_CONFIDENCE == 4

\* --------------------------------------------------------- process_detections

\* config.MIN_CONTOUR_POINTS: the fewest contour points process_detections
\* hands to get_smallest_triangle.
MIN_CONTOUR_POINTS == 3

\* detection_points with the bbox read as top-left corner and size instead
\* of centre and size.
detection_points_top_left(detection) ==
    LET points == dict_get(detection, "points", <<>>)
        bbox == dict_get(detection, "bbox", EmptyDict)
        x == dict_get(bbox, "x", 0)
        y == dict_get(bbox, "y", 0)
        w == dict_get(bbox, "width", 0)
        h == dict_get(bbox, "height", 0)
    IN  IF points # <<>> THEN points
        ELSE IF w # 0 /\ h # 0
        THEN <<[x |-> x, y |-> y], [x |-> x + w, y |-> y],
               [x |-> x + w, y |-> y + h], [x |-> x, y |-> y + h]>>
        ELSE <<>>

\* Lines 156-175: the points of the detection, or the four corners of its
\* bbox when it has none (the sizes of the model are even, so the halves
\* are whole); <<>> when there is neither.
detection_points(detection) ==
    LET points == dict_get(detection, "points", <<>>)
        bbox == dict_get(detection, "bbox", EmptyDict)
        x == dict_get(bbox, "x", 0)
        y == dict_get(bbox, "y", 0)
        half_w == dict_get(bbox, "width", 0) \div 2
        half_h == dict_get(bbox, "height", 0) \div 2
    IN  IF points # <<>> THEN points
        ELSE IF dict_get(bbox, "width", 0) # 0 /\ dict_get(bbox, "height", 0) # 0
        THEN <<[x |-> x - half_w, y |-> y - half_h],
               [x |-> x + half_w, y |-> y - half_h],
               [x |-> x + half_w, y |-> y + half_h],
               [x |-> x - half_w, y |-> y + half_h]>>
        ELSE <<>>

\* Lines 153-240 for the detection at index i: the lists of records it adds
\* to analysis_results, one list per outcome of the solver; the empty list
\* when the detection is skipped or an exception is caught before the
\* append.
process_detection(detection, i) ==
    LET points == detection_points(detection)
        kept == SelectSeq(points, point_usable)
        contour_points == [k \in 1..Len(kept) |-> <<kept[k].x, kept[k].y>>]
    IN  IF points = <<>> THEN {<<>>}
        ELSE IF \E k \in 1..Len(kept) :
                   kept[k].x = not_a_number \/ kept[k].y = not_a_number
        THEN {<<>>}
        ELSE IF Len(contour_points) < MIN_CONTOUR_POINTS THEN {<<>>}
        ELSE {LET oriented == find_shortest_side_and_apex(o.result)
              IN  IF o.result = None
                     \/ oriented.middle_point_x2 = None \/ oriented.apex = None
                  THEN <<>>
                  ELSE IF get_hair_strand_class_name(
                             dict_get(detection, "class", <<"u", "n", "k", "n", "o", "w", "n">>))
                             = "AttributeError"
                  THEN <<>>
                  ELSE <<[detection_id |-> id_or(detection, det_id(i)),
                          detection_index |-> i,
                          triangle_vertices |-> o.result,
                          arrow_start_x2 |-> oriented.middle_point_x2,
                          arrow_end |-> oriented.apex,
                          contour_points |-> Len(contour_points),
                          confidence |-> dict_get(detection, "confidence", 0),
                          class |-> dict_get(detection, "class",
                                             <<"u", "n", "k", "n", "o", "w", "n">>),
                          bbox |-> dict_get(detection, "bbox", EmptyDict)]>>
                 : o \in get_smallest_triangle(contour_points)}

\* draw_visualization_elements: an image is the list of the lines drawn on
\* it; one line is added, from the middle of the shortest side towards the
\* apex.
draw_visualization_elements(image, middle_point_x2, apex) ==
    Append(image, [from_x2 |-> middle_point_x2, towards |-> apex])

\* Lines 148 and 210-212: processed_image = image.copy(), then one line per
\* record appended to analysis_results.
RECURSIVE draw_results(_, _)
draw_results(image, analysis_results) ==
    IF analysis_results = <<>> THEN image
    ELSE draw_results(
            draw_visualization_elements(image,
                                        Head(analysis_results).arrow_start_x2,
                                        Head(analysis_results).arrow_end),
            Tail(analysis_results))

\* process_detections(image, detections): the lists analysis_results can
\* be at the return, the detections taken in order from index i.
RECURSIVE process_from(_, _)
process_from(detections, i) ==
    IF i >= Len(detections) THEN {<<>>}
    ELSE {first \o rest : first \in process_detection(detections[i + 1], i),
                          rest \in process_from(detections, i + 1)}

process_detections(detections) == process_from(detections, 0)

\* -------------------------------------------- the answer of /api/process-image

\* index.py lines 229-264: one entry per detection, with the triangle and
\* the arrow of the first analysis result whose detection_id equals the
\* detection's.
detection_data(detections, analysis_results) ==
    [n \in 1..Len(detections) |->
        LET detection == detections[n]
            id == dict_get(detection, "detection_id", det_id(n - 1))
            det_data == [id |-> id,
                         class |-> dict_get(detection, "class",
                                            <<"u", "n", "k", "n", "o", "w", "n">>),
                         confidence |-> dict_get(detection, "confidence", 0),
                         points |-> dict_get(detection, "points", <<>>)]
            matches == {k \in 1..Len(analysis_results) :
                           analysis_results[k].detection_id = id}
        IN  IF matches = {} THEN det_data
            ELSE LET first == CHOOSE k \in matches : \A m \in matches : k <= m
                 IN  [id |-> det_data.id, class |-> det_data.class,
                      confidence |-> det_data.confidence, points |-> det_data.points,
                      triangle_vertices |-> analysis_results[first].triangle_vertices,
                      arrow_start_x2 |-> analysis_results[first].arrow_start_x2,
                      arrow_end |-> analysis_results[first].arrow_end]]

\* "Error generating report: "
ERROR_GENERATING_REPORT ==
    <<"E", "r", "r", "o", "r", " ", "g", "e", "n", "e", "r", "a", "t", "i", "n", "g",
      " ", "r", "e", "p", "o", "r", "t", ":", " ">>

\* index.py lines 203-299, from the report to the answer: an exception is
\* answered with status 500 (lines 294-299), and so is a report with an
\* error key (lines 205-206); otherwise the detections and the report are
\* sent with status 200.
process_image_response(detections, analysis_results, report) ==
    IF "raised" \in DOMAIN report
    THEN [status |-> 500, success |-> FALSE, error |-> report.raised]
    ELSE IF "error" \in DOMAIN report
    THEN [status |-> 500, error |-> ERROR_GENERATING_REPORT \o report.error]
    ELSE [status |-> 200, success |-> TRUE,
          detections |-> detection_data(detections, analysis_results),
          analysis_report |-> report]

\* ------------------------------------------------------------------ state

\* Scenario A of the specification: the corners of a square of side 10.
ScenarioA == <<<<0, 0>>, <<10, 0>>, <<10, 10>>, <<0, 10>>>>

\* The triangular polygon of the specification's scenarios.
ScenarioTri == <<<<0, 0>>, <<4, 0>>, <<2, 3>>>>

\* A polygon of 5 points with a far and a near point on the first ray from
\* the anchor.
ScenarioFive == <<<<0, 0>>, <<1, 0>>, <<2, 0>>, <<1, 1>>, <<0, 2>>>>

\* A polygon of 5 points whose hull keeps a vertex on its closing edge.
ScenarioPent == <<<<1, 0>>, <<1, 1>>, <<1, 2>>, <<2, 0>>, <<2, 2>>>>

\* Every order of the points of a polygon.
Orderings(s) ==
    {[i \in 1..Len(s) |-> s[f[i]]] :
        f \in {g \in [1..Len(s) -> 1..Len(s)] :
                  \A i, j \in 1..Len(s) : i # j => g[i] # g[j]}}

Contours ==
    SeqsUpTo(Points, MaxLen) \cup Orderings(ScenarioA)
        \cup Orderings(ScenarioTri)
        \cup Orderings(ScenarioFive) \cup Orderings(ScenarioPent)

VARIABLES
    contour,            \* the contour of the detection
    pc,                 \* position of the caller
    result,             \* the value get_smallest_triangle returned, or None
    path,               \* the statement that produced result
    hull,               \* the hull smallest_enclosing_triangle worked on
    steps,              \* the stages of the solver, in the order entered
    analysis_results,   \* process_detections: the records appended
    hull_input,         \* a point list handed directly to convex_hull
    hull_output,        \* convex_hull(hull_input)
    hull_again,         \* convex_hull(hull_output)
    orient_triangle,    \* a triangle handed to find_shortest_side_and_apex
    orientation,        \* what find_shortest_side_and_apex returned for it
    class_name,         \* a label handed to get_hair_strand_class_name
    hair_class,         \* what get_hair_strand_class_name returned for it
    predictions,        \* the predictions list of a workflow response
    detections,         \* the detection list of a batch
    image_info,         \* the image information passed to the report
    report,             \* what generate_hair_analysis_report returned
    image,              \* the image handed to process_detections
    processed_image,    \* the image process_detections returned
    hashed,             \* the iteration orders of the hash sets of a call
    again,              \* what a second call with the same input returned
    confidence_threshold,  \* the confidence handed to run_workflow, in tenths
    temp_file,          \* the file at TEMP_IMAGE_PATH: whose image it holds
    requests,           \* the /api/process-image requests in flight
    response,           \* what /api/process-image answered for the batch
    cache_file,         \* the benchmark cache file of one model: its content
    running_marker,     \* whether the .running marker of the model exists
    benchmarks          \* the /api/benchmark requests for the model

hull_vars == <<hull_input, hull_output, hull_again>>

orient_vars == <<orient_triangle, orientation>>

class_vars == <<class_name, hair_class>>

batch_vars == <<predictions, detections, image_info, report>>

frame_vars == <<image, processed_image, hashed, again>>

web_vars == <<temp_file, requests>>

api_vars == <<response>>

bench_vars == <<cache_file, running_marker, benchmarks>>

\* What a step of a request handler leaves alone.
not_web_vars == <<contour, pc, result, path, hull, steps, analysis_results,
                  hull_vars, orient_vars, class_vars, batch_vars, frame_vars,
                  confidence_threshold, api_vars, bench_vars>>

ext_vars == <<frame_vars, confidence_threshold, web_vars, api_vars, bench_vars>>

vars == <<contour, pc, result, path, hull, steps, analysis_results,
          hull_vars, orient_vars, class_vars, batch_vars, ext_vars>>

\* The variables of the other entry points, before any call to them.
hull_idle == hull_input = <<>> /\ hull_output = <<>> /\ hull_again = <<>>

orient_idle == orient_triangle = <<>> /\ orientation = <<>>

class_idle == class_name = <<>> /\ hair_class = ""

batch_idle ==
    /\ predictions = <<>>
    /\ detections = <<>>
    /\ image_info = <<>>
    /\ report = <<>>

frame_idle ==
    /\ image = <<>>
    /\ processed_image = <<>>
    /\ hashed = <<>>
    /\ again = <<>>

web_idle == temp_file = {} /\ requests = <<>>

api_idle == response = <<>>

bench_idle == cache_file = "absent" /\ running_marker = FALSE /\ benchmarks = <<>>

ext_idle ==
    /\ frame_idle
    /\ confidence_threshold = DEFAULT_CONFIDENCE
    /\ web_idle
    /\ api_idle
    /\ bench_idle

solver_idle ==
    /\ contour = <<>>
    /\ result = None
    /\ path = "none"
    /\ hull = <<>>
    /\ steps = <<>>
    /\ analysis_results = <<>>

Init ==
    /\ contour \in Contours
    /\ pc = "call"
    /\ result = None
    /\ path = "none"
    /\ hull = <<>>
    /\ steps = <<>>
    /\ analysis_results = <<>>
    /\ hull_idle
    /\ orient_idle
    /\ class_idle
    /\ batch_idle
    /\ ext_idle

\* A call get_smallest_triangle(contour) runs to its return.
GetSmallestTriangle ==
    /\ pc = "call"
    /\ \E o \in get_smallest_triangle(contour) :
          /\ result' = o.result
          /\ path' = o.path
          /\ hull' = o.hull
          /\ steps' = o.steps
    /\ pc' = "done"
    /\ UNCHANGED <<contour, analysis_results, hull_vars, orient_vars, class_vars,
                   batch_vars,
                   ext_vars>>

\* process_detections lines 186-188: a contour of fewer than
\* MIN_CONTOUR_POINTS points is skipped before any call.
SkipDetection ==
    /\ pc = "call"
    /\ Len(contour) < MIN_CONTOUR_POINTS
    /\ pc' = "skipped"
    /\ UNCHANGED <<contour, result, path, hull, steps, analysis_results, hull_vars,
                   orient_vars, class_vars, batch_vars,
                   ext_vars>>

\* process_detections lines 194-236: with the triangle returned for the
\* contour, record the triangle and its orientation, or nothing for None.
RecordDetection ==
    /\ pc = "done"
    /\ Len(contour) >= MIN_CONTOUR_POINTS
    /\ LET o == find_shortest_side_and_apex(result)
       IN  analysis_results' =
              IF result # None /\ o.middle_point_x2 # None /\ o.apex # None
              THEN Append(analysis_results,
                          [triangle_vertices |-> result,
                           arrow_start_x2 |-> o.middle_point_x2,
                           arrow_end |-> o.apex,
                           contour_points |-> Len(contour)])
              ELSE analysis_results
    /\ pc' = "recorded"
    /\ UNCHANGED <<contour, result, path, hull, steps, hull_vars, orient_vars,
                   class_vars, batch_vars,
                   ext_vars>>

Next ==
    \/ GetSmallestTriangle
    \/ SkipDetection
    \/ RecordDetection

Spec == Init /\ [][Next]_vars

\* ------------------------------------------- convex_hull called on a list

InitHull ==
    /\ \E k \in 0..MaxHullLen : hull_input \in [1..k -> Points]
    /\ hull_output = <<>>
    /\ hull_again = <<>>
    /\ pc = "hull_call"
    /\ solver_idle
    /\ orient_idle
    /\ class_idle
    /\ batch_idle
    /\ ext_idle

\* hull_output = convex_hull(hull_input).
CallConvexHull ==
    /\ pc = "hull_call"
    /\ hull_output' = convex_hull(hull_input)
    /\ pc' = "hull_done"
    /\ UNCHANGED <<hull_input, hull_again, contour, result, path, hull, steps,
                   analysis_results, orient_vars, class_vars, batch_vars,
                   ext_vars>>

\* hull_again = convex_hull(hull_output): the hull of a hull.
CallConvexHullAgain ==
    /\ pc = "hull_done"
    /\ hull_again' = convex_hull(hull_output)
    /\ pc' = "hull_again_done"
    /\ UNCHANGED <<hull_input, hull_output, contour, result, path, hull, steps,
                   analysis_results, orient_vars, class_vars, batch_vars,
                   ext_vars>>

NextHull == CallConvexHull \/ CallConvexHullAgain

SpecHull == InitHull /\ [][NextHull]_vars

\* ---------------------------- find_shortest_side_and_apex called on a list

\* The triangles handed to find_shortest_side_and_apex: every list of three
\* grid points, repeated and collinear points included, and None.
InitOrient ==
    /\ orient_triangle \in [1..3 -> Points] \cup {None}
    /\ orientation = <<>>
    /\ pc = "orient_call"
    /\ solver_idle
    /\ hull_idle
    /\ class_idle
    /\ batch_idle
    /\ ext_idle

\* orientation = find_shortest_side_and_apex(orient_triangle).
CallFindShortestSideAndApex ==
    /\ pc = "orient_call"
    /\ orientation' = find_shortest_side_and_apex(orient_triangle)
    /\ pc' = "orient_done"
    /\ UNCHANGED <<orient_triangle, contour, result, path, hull, steps,
                   analysis_results, hull_vars, class_vars, batch_vars,
                   ext_vars>>

NextOrient == CallFindShortestSideAndApex

SpecOrient == InitOrient /\ [][NextOrient]_vars

\* ------------------------------ get_hair_strand_class_name called on a label

\* The pieces class labels are joined from: the three words in several
\* cases, a word cut short, and filler.
Tokens ==
    {<<"s", "t", "r", "o", "n", "g">>, <<"S", "T", "R", "O", "N", "G">>,
     <<"M", "e", "d", "i", "u", "m">>, <<"w", "E", "a", "K">>,
     <<"s", "t", "r", "o">>, <<"n", "g">>, <<"_", "f">>}

RECURSIVE join(_)
join(pieces) ==
    IF pieces = <<>> THEN <<>> ELSE Head(pieces) \o join(Tail(pieces))

Labels == {join(pieces) : pieces \in SeqsUpTo(Tokens, MaxTokens)} \cup {not_a_string}

InitClass ==
    /\ class_name \in Labels
    /\ hair_class = ""
    /\ pc = "class_call"
    /\ solver_idle
    /\ hull_idle
    /\ orient_idle
    /\ batch_idle
    /\ ext_idle

\* hair_class = get_hair_strand_class_name(class_name).
CallGetHairStrandClassName ==
    /\ pc = "class_call"
    /\ hair_class' = get_hair_strand_class_name(class_name)
    /\ pc' = "class_done"
    /\ UNCHANGED <<class_name, contour, result, path, hull, steps,
                   analysis_results, hull_vars, orient_vars, batch_vars,
                   ext_vars>>

NextClass == CallGetHairStrandClassName

SpecClass == InitClass /\ [][NextClass]_vars

\* ------------------------- generate_hair_analysis_report called on a batch

\* The detection dicts handed to the report: each class at one or two
\* confidences, a label that names no class, a label that is not a string,
\* a confidence that is not a number, and a dict without each key.
ReportDetections ==
    {[class |-> <<"s", "t", "r", "o", "n", "g", "_", "f">>, confidence |-> 9],
     [class |-> <<"s", "t", "r", "o", "n", "g", "_", "f">>, confidence |-> 5],
     [class |-> <<"M", "e", "d", "i", "u", "m">>, confidence |-> 5],
     [class |-> <<"w", "E", "a", "K">>, confidence |-> 9],
     [class |-> <<"h", "a", "i", "r">>, confidence |-> 9],
     [class |-> not_a_string, confidence |-> 5],
     [class |-> <<"w", "E", "a", "K">>, confidence |-> not_a_number],
     [class |-> <<"w", "E", "a", "K">>],
     [confidence |-> 9]}

\* An analysis result as process_detections records it.
sample_result ==
    [triangle_vertices |-> ScenarioTri,
     arrow_start_x2 |-> <<6, 3>>,
     arrow_end |-> <<0, 0>>,
     contour_points |-> 3]

ImageInfos == {EmptyDict, [width |-> 4, height |-> 3]}

InitReport ==
    /\ \E k \in 0..MaxBatch : detections \in [1..k -> ReportDetections]
    /\ \E k \in 0..MaxBatch : analysis_results = [i \in 1..k |-> sample_result]
    /\ image_info \in ImageInfos
    /\ predictions = <<>>
    /\ report = <<>>
    /\ pc = "report_call"
    /\ contour = <<>>
    /\ result = None
    /\ path = "none"
    /\ hull = <<>>
    /\ steps = <<>>
    /\ hull_idle
    /\ orient_idle
    /\ class_idle
    /\ ext_idle

\* report = generate_hair_analysis_report(detections, analysis_results,
\* image_info).
CallGenerateReport ==
    /\ pc = "report_call"
    /\ report' = generate_hair_analysis_report(detections, analysis_results, image_info)
    /\ pc' = "report_done"
    /\ UNCHANGED <<predictions, detections, image_info, contour, result, path,
                   hull, steps, analysis_results, hull_vars, orient_vars, class_vars,
                   ext_vars>>

NextReport == CallGenerateReport

SpecReport == InitReport /\ [][NextReport]_vars

\* ---------------------------------- a workflow response through the pipeline

\* The polygons of the predictions: the triangle of the scenarios; two
\* points only; the triangle with a fourth point that lacks its y; the
\* triangle with a coordinate that is not a number; no polygon.
PredPoints ==
    {<<[x |-> 0, y |-> 0], [x |-> 4, y |-> 0], [x |-> 2, y |-> 3]>>,
     <<[x |-> 0, y |-> 0], [x |-> 4, y |-> 0]>>,
     <<[x |-> 0, y |-> 0], [x |-> 4, y |-> 0], [x |-> 2, y |-> 3], [x |-> 1]>>,
     <<[x |-> 0, y |-> 0], [x |-> 4, y |-> 0], [x |-> 2, y |-> not_a_number]>>,
     <<>>}

PredClasses ==
    {<<"s", "t", "r", "o", "n", "g", "_", "f">>, <<"h", "a", "i", "r">>, not_a_string}

PredConfidences == {9, not_a_number}

\* The predictions of a workflow response: dicts with a polygon, a dict with
\* only the box of scenario A, a dict with only a box 4 wide and 2 high, a
\* dict with both a polygon and a box, and an entry that is not a dict.
Preds ==
    [class : PredClasses, confidence : PredConfidences, points : PredPoints]
        \cup {[class |-> <<"s", "t", "r", "o", "n", "g", "_", "f">>, confidence |-> 9,
                x |-> 5, y |-> 5, width |-> 10, height |-> 10]}
        \cup {[class |-> <<"s", "t", "r", "o", "n", "g", "_", "f">>, confidence |-> 9,
                x |-> 3, y |-> 2, width |-> 4, height |-> 2]}
        \cup {[class |-> <<"s", "t", "r", "o", "n", "g", "_", "f">>, confidence |-> 9,
                points |-> <<[x |-> 0, y |-> 0], [x |-> 4, y |-> 0], [x |-> 2, y |-> 3]>>,
                x |-> 5, y |-> 5, width |-> 10, height |-> 10]}
        \cup {[not_a_dict |-> TRUE]}

InitBatch ==
    /\ \E k \in 0..MaxPreds : predictions \in [1..k -> Preds]
    /\ detections = <<>>
    /\ image_info = [width |-> 4, height |-> 3]
    /\ report = <<>>
    /\ pc = "extract"
    /\ solver_idle
    /\ hull_idle
    /\ orient_idle
    /\ class_idle
    /\ ext_idle

\* run_workflow: detections = _extract_detections_from_workflow(response).
ExtractDetections ==
    /\ pc = "extract"
    /\ detections' = extract_detections_from_workflow(predictions,
                                                      confidence_threshold)
    /\ pc' = "process"
    /\ UNCHANGED <<predictions, image_info, report, contour, result, path, hull,
                   steps, analysis_results, hull_vars, orient_vars, class_vars,
                   ext_vars>>

\* process_detections drawing on the image it was handed instead of on a
\* copy of it.
ProcessDetections_draws_on_input ==
    /\ pc = "process"
    /\ analysis_results' \in process_detections(detections)
    /\ image' = draw_results(image, analysis_results')
    /\ processed_image' = image'
    /\ pc' = "report"
    /\ UNCHANGED <<predictions, detections, image_info, report, contour, result,
                   path, hull, steps, hull_vars, orient_vars, class_vars,
                   hashed, again, confidence_threshold, web_vars,
                   api_vars, bench_vars>>

\* process_image_file: processed_image and analysis_results of
\* process_detections(image, detections).
ProcessDetections ==
    /\ pc = "process"
    /\ analysis_results' \in process_detections(detections)
    /\ processed_image' = draw_results(image, analysis_results')
    /\ pc' = "report"
    /\ UNCHANGED <<predictions, detections, image_info, report, contour, result,
                   path, hull, steps, hull_vars, orient_vars, class_vars,
                   image, hashed, again, confidence_threshold, web_vars,
                   api_vars, bench_vars>>

\* process_image: the report of the batch; a raise ends the request with
\* status 500.
ReportBatch ==
    /\ pc = "report"
    /\ report' = generate_hair_analysis_report(detections, analysis_results, image_info)
    /\ pc' = "batch_done"
    /\ UNCHANGED <<predictions, detections, image_info, contour, result, path,
                   hull, steps, analysis_results, hull_vars, orient_vars, class_vars,
                   ext_vars>>

NextBatch ==
    \/ ExtractDetections
    \/ ProcessDetections
    \/ ReportBatch

SpecBatch == InitBatch /\ [][NextBatch]_vars

\* ------------------------------------------- the batch up to the answer

\* Two polygons, the triangle of the scenarios and a right triangle.
IdPolygons ==
    {<<[x |-> 0, y |-> 0], [x |-> 4, y |-> 0], [x |-> 2, y |-> 3]>>,
     <<[x |-> 0, y |-> 0], [x |-> 2, y |-> 0], [x |-> 0, y |-> 2]>>}

\* The identifiers upstream sends: "a", and "det_0".
UpstreamIds == {<<"a">>, det_id(0)}

\* The predictions of the answered batches: a polygon or none, with an
\* identifier under detection_id or without one.
IdPreds ==
    [class : {<<"s", "t", "r", "o", "n", "g", "_", "f">>}, confidence : {9},
     points : IdPolygons \cup {<<>>}]
        \cup [class : {<<"s", "t", "r", "o", "n", "g", "_", "f">>}, confidence : {9},
              points : IdPolygons \cup {<<>>}, detection_id : UpstreamIds]

InitResponse ==
    /\ \E k \in 0..MaxPreds : predictions \in [1..k -> IdPreds]
    /\ detections = <<>>
    /\ image_info = [width |-> 4, height |-> 3]
    /\ report = <<>>
    /\ pc = "extract"
    /\ solver_idle
    /\ hull_idle
    /\ orient_idle
    /\ class_idle
    /\ ext_idle

\* process_image from the report on: the answer of the request.
Respond ==
    /\ pc = "batch_done"
    /\ response' = process_image_response(detections, analysis_results, report)
    /\ pc' = "responded"
    /\ UNCHANGED <<predictions, detections, image_info, report, contour, result,
                   path, hull, steps, analysis_results, hull_vars, orient_vars,
                   class_vars, frame_vars, confidence_threshold, web_vars,
                   bench_vars>>

NextResponse ==
    \/ ExtractDetections
    \/ ProcessDetections
    \/ ReportBatch
    \/ Respond

SpecResponse == InitResponse /\ [][NextResponse]_vars

\* ------------------------------------------- run_workflow with a threshold

\* The confidences handed to run_workflow: 0.0, the default 0.4, and 1.0.
Thresholds == {0, DEFAULT_CONFIDENCE, 10}

\* The predictions of Preds, and a polygon of confidence 0.1.
ThresholdPreds ==
    Preds \cup {[class |-> <<"s", "t", "r", "o", "n", "g", "_", "f">>, confidence |-> 1,
                 points |-> <<[x |-> 0, y |-> 0], [x |-> 4, y |-> 0],
                              [x |-> 2, y |-> 3]>>]}

\* A workflow response about to be extracted under a threshold.
InitThreshold ==
    /\ \E k \in 0..MaxPreds : predictions \in [1..k -> ThresholdPreds]
    /\ confidence_threshold \in Thresholds
    /\ detections = <<>>
    /\ image_info = <<>>
    /\ report = <<>>
    /\ pc = "extract"
    /\ solver_idle
    /\ hull_idle
    /\ orient_idle
    /\ class_idle
    /\ frame_idle
    /\ web_idle
    /\ api_idle
    /\ bench_idle

NextThreshold == ExtractDetections

SpecThreshold == InitThreshold /\ [][NextThreshold]_vars

\* ------------------------------ /api/process-image requests served at once

\* The requests in flight; request r uploaded image r.  The content of a
\* file, or of an image read from one, is the set of the request whose image
\* it is: {} is no file, no image.
Requests == 1..MaxRequests

\* The handler after the upload is decoded and cropped (lines 128-188).
InitTemp ==
    /\ temp_file = {}
    /\ requests = [r \in Requests |->
                      [pc |-> "received", opened |-> {}, inferred |-> {},
                       exists |-> FALSE, raised |-> FALSE, status |-> 0]]
    /\ pc = "serving"
    /\ solver_idle
    /\ hull_idle
    /\ orient_idle
    /\ class_idle
    /\ batch_idle
    /\ frame_idle
    /\ confidence_threshold = DEFAULT_CONFIDENCE
    /\ api_idle
    /\ bench_idle

\* Line 191: temp_path = save_temp_image(cropped_image).  temp_path is left
\* to its default, so image.save writes the one file at TEMP_IMAGE_PATH.
SaveTempImage(r) ==
    /\ requests[r].pc = "received"
    /\ temp_file' = {r}
    /\ requests' = [requests EXCEPT ![r].pc = "saved"]
    /\ UNCHANGED not_web_vars

\* process_image_file lines 323-329: Image.open(image_path) reads the file
\* that is at the path now; without a file it raises ValueError.
OpenImage(r) ==
    /\ requests[r].pc = "saved"
    /\ requests' = IF temp_file = {}
                   THEN [requests EXCEPT ![r].pc = "finally", ![r].raised = TRUE]
                   ELSE [requests EXCEPT ![r].pc = "opened", ![r].opened = temp_file]
    /\ UNCHANGED <<temp_file, not_web_vars>>

\* process_image_file line 332: the workflow client sends the file that is
\* at image_path now; the detections, the analysis and the response are
\* computed from the answer (lines 335, 203-287).
RunWorkflow(r) ==
    /\ requests[r].pc = "opened"
    /\ requests' = IF temp_file = {}
                   THEN [requests EXCEPT ![r].pc = "finally", ![r].raised = TRUE]
                   ELSE [requests EXCEPT ![r].pc = "finally", ![r].inferred = temp_file]
    /\ UNCHANGED <<temp_file, not_web_vars>>

\* Line 291 in the finally block: os.path.exists(temp_path).
CheckTempExists(r) ==
    /\ requests[r].pc = "finally"
    /\ requests' = [requests EXCEPT ![r].pc = "remove", ![r].exists = (temp_file # {})]
    /\ UNCHANGED <<temp_file, not_web_vars>>

\* Line 292: os.remove(temp_path) when the file was seen; FileNotFoundError
\* when it is gone by now.  An exception of the try block or of the finally
\* block is answered with status 500 (lines 294-299).
RemoveTemp(r) ==
    /\ requests[r].pc = "remove"
    /\ temp_file' = IF requests[r].exists THEN {} ELSE temp_file
    /\ requests' = [requests EXCEPT
                       ![r].pc = "responded",
                       ![r].status = IF requests[r].raised
                                        \/ (requests[r].exists /\ temp_file = {})
                                     THEN 500 ELSE 200]
    /\ UNCHANGED not_web_vars

NextTemp ==
    \E r \in Requests :
       \/ SaveTempImage(r)
       \/ OpenImage(r)
       \/ RunWorkflow(r)
       \/ CheckTempExists(r)
       \/ RemoveTemp(r)

SpecTemp == InitTemp /\ [][NextTemp]_vars

\* ------------------------------------- /api/benchmark requests for one model

\* The content of the cache file of the model: "absent" (no file), "empty"
\* (just opened for writing), "partial" (some lines of a run that is still
\* going), "failed" (all the output of a run that exited with an error) or
\* "complete" (all the output of a run that exited with 0).

\* Requests for the same model, each with its use_cache and check_only
\* (lines 451-452), at the top of the loop body (lines 528-533).
InitBenchmark ==
    /\ cache_file = "absent"
    /\ running_marker = FALSE
    /\ benchmarks \in [Requests ->
                         [pc : {"begin"}, use_cache : BOOLEAN, check_only : BOOLEAN,
                          used_cache : {FALSE}, stdout : {""}, returncode : {0},
                          result : {<<>>}]]
    /\ pc = "serving"
    /\ solver_idle
    /\ hull_idle
    /\ orient_idle
    /\ class_idle
    /\ batch_idle
    /\ frame_idle
    /\ confidence_threshold = DEFAULT_CONFIDENCE
    /\ web_idle
    /\ api_idle

\* What a step of a benchmark request leaves alone.
not_bench_vars == <<contour, pc, result, path, hull, steps, analysis_results,
                    hull_vars, orient_vars, class_vars, batch_vars, frame_vars,
                    confidence_threshold, web_vars, api_vars>>

\* Lines 535-542: with use_cache and a cache file, whatever the file holds
\* is read and used_cache is set.
ReadCache(r) ==
    /\ benchmarks[r].pc = "begin"
    /\ benchmarks' =
          IF benchmarks[r].use_cache /\ cache_file # "absent"
          THEN [benchmarks EXCEPT ![r].pc = "read", ![r].stdout = cache_file,
                                  ![r].used_cache = TRUE]
          ELSE [benchmarks EXCEPT ![r].pc = "read"]
    /\ UNCHANGED <<cache_file, running_marker, not_bench_vars>>

\* Lines 545-556: check_only with a cache answers from what was read.
AnswerCheckOnly(r) ==
    /\ benchmarks[r].pc = "read"
    /\ benchmarks[r].check_only /\ benchmarks[r].used_cache
    /\ benchmarks' = [benchmarks EXCEPT
                         ![r].pc = "answered",
                         ![r].result = [from_cache |-> TRUE,
                                        output |-> benchmarks[r].stdout]]
    /\ UNCHANGED <<cache_file, running_marker, not_bench_vars>>

\* Lines 559-577: without a cache and without check_only the marker is
\* written and the cache file is opened for writing, which creates or
\* empties it.
OpenCacheFile(r) ==
    /\ benchmarks[r].pc = "read"
    /\ ~benchmarks[r].used_cache /\ ~benchmarks[r].check_only
    /\ running_marker' = TRUE
    /\ cache_file' = "empty"
    /\ benchmarks' = [benchmarks EXCEPT ![r].pc = "opened"]
    /\ UNCHANGED not_bench_vars

\* Lines 578-584 and 608-617: subprocess.Popen starts the run, or raises,
\* which sets returncode to -1 and removes the marker; the cache file stays
\* as it is.
StartRun(r) ==
    /\ benchmarks[r].pc = "opened"
    /\ \/ /\ benchmarks' = [benchmarks EXCEPT ![r].pc = "streaming"]
          /\ UNCHANGED running_marker
       \/ /\ benchmarks' = [benchmarks EXCEPT ![r].pc = "ran", ![r].returncode = -1]
          /\ running_marker' = FALSE
    /\ UNCHANGED <<cache_file, not_bench_vars>>

\* Lines 587-589: a line of output is written to the cache file and
\* flushed.
StreamLine(r) ==
    /\ benchmarks[r].pc = "streaming"
    /\ cache_file' = "partial"
    /\ benchmarks' = [benchmarks EXCEPT ![r].pc = "streamed"]
    /\ UNCHANGED <<running_marker, not_bench_vars>>

\* Lines 587-607: the last line is written and the run exits, with 0 or
\* with an error; the marker is removed, the cache file is kept either way.
FinishRun(r) ==
    /\ benchmarks[r].pc = "streamed"
    /\ \/ /\ cache_file' = "complete"
          /\ benchmarks' = [benchmarks EXCEPT ![r].pc = "ran", ![r].stdout = "complete"]
       \/ /\ cache_file' = "failed"
          /\ benchmarks' = [benchmarks EXCEPT ![r].pc = "ran", ![r].stdout = "failed",
                                              ![r].returncode = 1]
    /\ running_marker' = FALSE
    /\ UNCHANGED not_bench_vars

\* Lines 619-644: the cache file is read again when it exists, and the
\* result of the model is appended with from_cache = used_cache.
AnswerBenchmark(r) ==
    /\ \/ benchmarks[r].pc = "ran"
       \/ /\ benchmarks[r].pc = "read"
          /\ benchmarks[r].used_cache # benchmarks[r].check_only
    /\ benchmarks' = [benchmarks EXCEPT
                         ![r].pc = "answered",
                         ![r].result = [from_cache |-> benchmarks[r].used_cache,
                                        output |-> IF cache_file # "absent"
                                                   THEN cache_file
                                                   ELSE benchmarks[r].stdout,
                                        returncode |-> benchmarks[r].returncode]]
    /\ UNCHANGED <<cache_file, running_marker, not_bench_vars>>

NextBenchmark ==
    \E r \in Requests :
       \/ ReadCache(r)
       \/ AnswerCheckOnly(r)
       \/ OpenCacheFile(r)
       \/ StartRun(r)
       \/ StreamLine(r)
       \/ FinishRun(r)
       \/ AnswerBenchmark(r)

SpecBenchmark == InitBenchmark /\ [][NextBenchmark]_vars

\* ------------------------------------------------- a call and the same call again

\* The contours of the repeated solver calls: the lists of at most
\* MIN_CONTOUR_POINTS grid points, every order of the square and of the
\* triangle of the scenarios, and the two polygons of 5 points.
FrameContours ==
    UNION {[1..k -> Points] : k \in 0..MIN_CONTOUR_POINTS}
        \cup Orderings(ScenarioA) \cup Orderings(ScenarioTri)
        \cup {ScenarioFive, ScenarioPent}

\* The predictions of the repeated calls: a polygon, a polygon with a label
\* that is not a string, a box, a polygon together with a box, and an entry
\* that is not a dict.
FramePreds ==
    {p \in Preds :
        /\ "confidence" \in DOMAIN p => p.confidence = 9
        /\ "points" \in DOMAIN p => Len(p.points) = 3 /\ p.points[3].y = 3
        /\ "class" \in DOMAIN p => p.class # <<"h", "a", "i", "r">>
        /\ "width" \in DOMAIN p /\ "points" \notin DOMAIN p => p.width = 4}

\* An untouched image, and an image that already bears a line.
Images == {<<>>, <<[from_x2 |-> <<0, 0>>, towards |-> <<1, 1>>]>>}

\* Either a contour about to be handed to get_smallest_triangle, or an image
\* and the detections of a workflow response about to be handed to
\* process_detections, at most one of them with a box and no polygon.
InitFrame ==
    /\ \/ /\ pc = "solve"
          /\ contour \in FrameContours
          /\ predictions = <<>>
          /\ detections = <<>>
          /\ image = <<>>
       \/ /\ pc = "process"
          /\ contour = <<>>
          /\ \E k \in 0..MaxPreds : predictions \in [1..k -> FramePreds]
          /\ \A i, j \in 1..Len(predictions) :
                ("width" \in DOMAIN predictions[i] /\ "points" \notin DOMAIN predictions[i]
                    /\ "width" \in DOMAIN predictions[j] /\ "points" \notin DOMAIN predictions[j])
                   => i = j
          /\ detections = extract_detections_from_workflow(predictions,
                                                           DEFAULT_CONFIDENCE)
          /\ image \in Images
    /\ image_info = <<>>
    /\ report = <<>>
    /\ result = None
    /\ path = "none"
    /\ hull = <<>>
    /\ steps = <<>>
    /\ analysis_results = <<>>
    /\ processed_image = <<>>
    /\ hashed = <<>>
    /\ again = <<>>
    /\ confidence_threshold = DEFAULT_CONFIDENCE
    /\ web_idle
    /\ api_idle
    /\ bench_idle
    /\ hull_idle
    /\ orient_idle
    /\ class_idle

\* get_smallest_triangle(contour): unique_points comes out in some order,
\* and so does extreme_points (line 223) when the extreme-point fallback
\* answers.  One process iterates a hash set built from the same list in the
\* same order every time, so the orders are kept for the second call.
CallGetSmallestTriangle ==
    /\ pc = "solve"
    /\ \E order \in hash_orders(contour) :
          \E o \in get_smallest_triangle_hashed(contour, order) :
             /\ result' = o.result
             /\ hashed' = [unique_points |-> order,
                           extremes |-> IF o.path = "extreme" THEN o.result
                                        ELSE <<>>]
    /\ pc' = "solved"
    /\ UNCHANGED <<contour, path, hull, steps, analysis_results, hull_vars,
                   orient_vars, class_vars, batch_vars, image, processed_image,
                   again, confidence_threshold, web_vars,
                   api_vars, bench_vars>>

\* get_smallest_triangle(contour) once more in the same process.
CallGetSmallestTriangleAgain ==
    /\ pc = "solved"
    /\ \E o \in get_smallest_triangle_hashed(contour, hashed.unique_points) :
          /\ o.path = "extreme" => o.result = hashed.extremes
          /\ again' = [result |-> o.result]
    /\ pc' = "solved_again"
    /\ UNCHANGED <<contour, result, path, hull, steps, analysis_results, hull_vars,
                   orient_vars, class_vars, batch_vars, image, processed_image,
                   hashed, confidence_threshold, web_vars,
                   api_vars, bench_vars>>

\* process_detections(image, detections) once more in the same process:
\* every call of the solver repeats what it returned for the same contour.
ProcessDetectionsAgain ==
    /\ pc = "report"
    /\ \E a \in process_detections(detections) :
          /\ \A k \in 1..Len(a) : \A m \in 1..Len(analysis_results) :
                a[k].detection_index = analysis_results[m].detection_index
                   => a[k].triangle_vertices = analysis_results[m].triangle_vertices
          /\ again' = [analysis_results |-> a,
                       processed_image |-> draw_results(image, a)]
    /\ pc' = "processed_again"
    /\ UNCHANGED <<contour, result, path, hull, steps, analysis_results, hull_vars,
                   orient_vars, class_vars, batch_vars, image, processed_image,
                   hashed, confidence_threshold, web_vars,
                   api_vars, bench_vars>>

NextFrame ==
    \/ CallGetSmallestTriangle
    \/ CallGetSmallestTriangleAgain
    \/ ProcessDetections
    \/ ProcessDetectionsAgain

SpecFrame == InitFrame /\ [][NextFrame]_vars

\* ------------------------------------------------- geometry of the claims

\* All points of S lie on one line.
collinear_set(S) == \A a, b, c \in S : cross_product_2d(a, b, c) = 0

\* p lies inside or on the boundary of the convex hull of the finite set S:
\* no line through two points of S with all of S on one side has p strictly
\* on the other side; for S on one line, p is on that line between the ends.
in_convex_hull(S, p) ==
    IF collinear_set(S)
    THEN /\ collinear_set(S \cup {p})
         /\ \E a, b \in S : /\ (a[1] <= p[1] /\ p[1] <= b[1]) \/ (b[1] <= p[1] /\ p[1] <= a[1])
                            /\ (a[2] <= p[2] /\ p[2] <= b[2]) \/ (b[2] <= p[2] /\ p[2] <= a[2])
    ELSE \A a, b \in S :
            (a # b /\ \A q \in S : cross_product_2d(a, b, q) >= 0)
               => cross_product_2d(a, b, p) >= 0

\* Every point of the contour lies inside or on the boundary of the triangle.
encloses_all(triangle, points) ==
    /\ Len(triangle) = 3
    /\ \A p \in Range(points) : in_convex_hull(Range(triangle), p)

returned == pc \in {"done", "recorded"}

\* The triangles formed from three vertices of a hull.
hull_triples(h) ==
    {<<h[pos[1]], h[pos[2]], h[pos[3]]>> :
        pos \in {q \in (1..Len(h)) \X (1..Len(h)) \X (1..Len(h)) :
                    q[1] < q[2] /\ q[2] < q[3]}}

\* ------------------------------------------------------------------ claims

\* C1: whenever a triangle is returned through a non-fallback path (hull of
\* exactly 3 vertices, hull-triple search, extended search), every input
\* point lies inside or on the boundary of the returned triangle.
C1_EnclosureNonFallback ==
    (returned /\ path \in {"hull3", "triple", "extended"})
        => encloses_all(result, contour)

\* The four corners of an axis-aligned square of side s, in any order.
square_side(points) ==
    IF Len(points) = 4 /\ Cardinality(Range(points)) = 4
       /\ \E a \in Range(points) : \E side \in 1..10 :
             Range(points) = {a, <<a[1] + side, a[2]>>,
                              <<a[1] + side, a[2] + side>>, <<a[1], a[2] + side>>}
    THEN CHOOSE side \in 1..10 : \E a \in Range(points) :
             Range(points) = {a, <<a[1] + side, a[2]>>,
                              <<a[1] + side, a[2] + side>>, <<a[1], a[2] + side>>}
    ELSE 0

\* C2: for the four corners of an axis-aligned square the hull has 4
\* vertices and the solver returns a 3-point triangle that encloses all 4
\* corners and whose area is at least the area of the square.
C2_SquareScenario ==
    (returned /\ square_side(contour) > 0)
        => /\ Len(hull) = 4
           /\ Len(result) = 3
           /\ encloses_all(result, contour)
           /\ triangle_area_x2(result) >= 2 * square_side(contour) * square_side(contour)

\* C3: every triangle returned by get_smallest_triangle is non-degenerate:
\* its three vertices are neither collinear nor coincident.
C3_NeverDegenerate ==
    (returned /\ result # None)
        => (Len(result) = 3 /\ triangle_area_x2(result) # 0)

\* C4: a contour with fewer than 3 distinct points, whatever its length,
\* gets no triangle from get_smallest_triangle and no record (no triangle, no
\* orientation) from process_detections.
C4_FewDistinctPointsNoTriangle ==
    (pc \in {"done", "recorded", "skipped"} /\ Cardinality(Range(contour)) < 3)
        => (result = None /\ analysis_results = <<>>)

\* C5: for a list of at least 3 distinct points, in any order, every input
\* point lies inside or on the boundary of the polygon convex_hull returns.
C5_HullContainsInput ==
    (pc \in {"hull_done", "hull_again_done"} /\ Cardinality(Range(hull_input)) >= 3)
        => \A p \in Range(hull_input) : in_convex_hull(Range(hull_output), p)

\* C6: the triangle depends only on the set of distinct points of the
\* contour: every contour with the same set of points, in any order and with
\* any duplicates, yields the same set of triangle vertices.
C6_DependsOnPointSetOnly ==
    returned
        => \A other \in Contours :
              Range(other) = Range(contour)
                 => \A o \in get_smallest_triangle(other) :
                       Range(o.result) = Range(result)

\* C7: in the enclosure test of the hull-triple search, point_in_triangle
\* answers False for every point when the triangle is degenerate; it neither
\* answers True nor raises.
C7_DegenerateTriangleIsFalse ==
    (returned /\ \E n \in 1..Len(steps) : steps[n] = "triple")
        => \A t \in hull_triples(hull) :
              triangle_area_x2(t) = 0
                 => \A p \in Range(contour) : point_in_triangle(p, t) = "False"

\* C8: once the hull-triple search is entered, the stages follow in the
\* order hull-triple search, extended search, extreme-point heuristic, each
\* entered only when the one before found nothing, and the triangle returned
\* comes from one of these documented steps (never from an exception path).
C8_ProgressiveFallback ==
    (returned /\ \E n \in 1..Len(steps) : steps[n] = "triple")
        => /\ \/ steps = <<"hull", "triple">> /\ path = "triple"
              \/ steps = <<"hull", "triple", "extended">> /\ path = "extended"
              \/ steps = <<"hull", "triple", "extended", "heuristic">>
                   /\ path \in {"extreme", "first3"}
           /\ result # None

C10_HullIdempotent ==
    pc = "hull_again_done" => Range(hull_again) = Range(hull_output)

\* Witness of C10: a hull of at least 4 vertices, smaller than its input, was
\* handed to convex_hull again.
C10_Witness ==
    /\ pc = "hull_again_done"
    /\ Len(hull_output) >= 4
    /\ Range(hull_output) # Range(hull_input)


\* The vertices of the convex hull of the finite set S: the points of S that
\* do not lie in the convex hull of the others.
hull_vertices(S) == {p \in S : ~in_convex_hull(S \ {p}, p)}

\* C11: when the convex hull of the input has exactly 3 vertices, the solver
\* returns exactly those 3 vertices and enters no search stage; the polygon
\* (0,0),(4,0),(2,3) is returned unchanged.
C11_TriangularHullReturned ==
    (returned /\ Cardinality(hull_vertices(Range(contour))) = 3)
        => /\ result # None
           /\ Range(result) = hull_vertices(Range(contour))
           /\ steps = <<"hull">>
           /\ contour = ScenarioTri => result = ScenarioTri


\* The squared length of edge i (0-based) of the triangle handed in.
edge_sq(i) ==
    distance_sq(orient_triangle[i + 1], orient_triangle[((i + 1) % 3) + 1])

\* C12: for a 3-point triangle, find_shortest_side_and_apex picks the edge i
\* of minimum length, the lowest index winning ties, and returns the
\* midpoint of that edge (here doubled) and vertex (i + 2) mod 3.
C12_ShortestSideAndApex ==
    (pc = "orient_done" /\ orient_triangle # None)
        => \E i \in 0..2 :
              /\ \A k \in 0..2 : edge_sq(i) <= edge_sq(k)
              /\ \A k \in 0..2 : k < i => edge_sq(k) > edge_sq(i)
              /\ orientation.middle_point_x2 =
                    <<orient_triangle[i + 1][1] + orient_triangle[((i + 1) % 3) + 1][1],
                      orient_triangle[i + 1][2] + orient_triangle[((i + 1) % 3) + 1][2]>>
              /\ orientation.apex = orient_triangle[((i + 2) % 3) + 1]

\* Witness of C12: a proper triangle whose edges 1 and 2 tie for shortest
\* went through find_shortest_side_and_apex.
C12_Witness ==
    /\ pc = "orient_done"
    /\ orient_triangle # None
    /\ triangle_area_x2(orient_triangle) # 0
    /\ edge_sq(1) = edge_sq(2)
    /\ edge_sq(1) < edge_sq(0)
    /\ orientation.apex = orient_triangle[1]


\* Two characters are the same letter, whatever their case.
same_letter(c, d) ==
    \/ c = d
    \/ \E i \in 1..Len(UpperCase) :
          {c, d} = {UpperCase[i], LowerCase[i]}

\* The word occurs in the label handed in, whatever the case of its letters.
label_has(word) ==
    \E i \in 1..Len(class_name) :
        /\ i + Len(word) - 1 <= Len(class_name)
        /\ \A j \in 1..Len(word) : same_letter(class_name[i + j - 1], word[j])

\* C18: every label maps to exactly one of strong, medium, weak, unknown, by
\* case-insensitive substring match in the priority order strong, medium,
\* weak; a label with none of the three words, or empty, maps to unknown.
C18_ClassBySubstringPriority ==
    (pc = "class_done" /\ class_name # not_a_string)
        => /\ hair_class \in {"strong", "medium", "weak", "unknown"}
           /\ hair_class = "strong" <=> label_has(STRONG)
           /\ hair_class = "medium" <=> (~label_has(STRONG) /\ label_has(MEDIUM))
           /\ hair_class = "weak"
                 <=> (~label_has(STRONG) /\ ~label_has(MEDIUM) /\ label_has(WEAK))

\* Witness of C18: a label holding "strong" in upper case after "weak" and
\* "medium" was mapped to strong.
C18_Witness ==
    /\ pc = "class_done"
    /\ class_name # not_a_string
    /\ label_has(WEAK)
    /\ label_has(MEDIUM)
    /\ ~str_contains(STRONG, class_name)
    /\ hair_class = "strong"


\* The report call returned a report (it did not raise).
report_returned == pc = "report_done" /\ "raised" \notin DOMAIN report

\* The text of the no-detections marker.
NoDetectionsFound ==
    <<"N", "o", " ", "d", "e", "t", "e", "c", "t", "i", "o", "n", "s",
      " ", "f", "o", "u", "n", "d">>

\* C15: for the empty detection list the report is exactly {total_count: 0,
\* class_distribution: {}, confidence_stats: {}, error: "No detections
\* found"}, without raising, whatever analysis results and image info come
\* with it.
C15_EmptyBatchReport ==
    (pc = "report_done" /\ detections = <<>>)
        => report = [total_count |-> 0,
                     class_distribution |-> EmptyDict,
                     confidence_stats |-> EmptyDict,
                     error |-> NoDetectionsFound]

\* Witness of C15: the report of an empty detection list passed with
\* analysis results and image information.
C15_Witness ==
    /\ pc = "report_done"
    /\ detections = <<>>
    /\ analysis_results # <<>>
    /\ image_info # EmptyDict
    /\ "error" \in DOMAIN report


\* C14: every report with total_count = 0 carries the marker error: "No
\* detections found", whatever the batch it was made from.
C14_ZeroTotalHasMarker ==
    (report_returned /\ report.total_count = 0)
        => /\ "error" \in DOMAIN report
           /\ report.error = NoDetectionsFound

\* C16: for every non-empty batch, confidence_stats has the entries overall,
\* strong, medium and weak, each with all of average, min, max, std, count.
C16_ConfidenceStatsKeys ==
    (report_returned /\ detections # <<>>)
        => \A entry \in {"overall", "strong", "medium", "weak"} :
              /\ entry \in DOMAIN report.confidence_stats
              /\ {"average", "min", "max", "std", "count"}
                    \subseteq DOMAIN report.confidence_stats[entry]

\* The fields of a report that C19 names.
aggregates(r) ==
    IF "error" \in DOMAIN r THEN <<r.total_count>>
    ELSE <<r.class_counts, r.total_count, r.ratios.terminal_vellus,
           r.ratios.strong_medium, r.triangle_analysis.successful_triangles>>

\* C19: the class counts, total_count, ratio strings and successful-triangle
\* count of the report are the same for every permutation of the detection
\* list.
C19_OrderIndependent ==
    report_returned
        => \A other \in Orderings(detections) :
              LET r == generate_hair_analysis_report(other, analysis_results, image_info)
              IN  /\ "raised" \notin DOMAIN r
                  /\ aggregates(r) = aggregates(report)

\* Witness of C19: a report of a batch that holds a detection of no class
\* before a detection counted as strong, and a detection counted as weak.
C19_Witness ==
    /\ report_returned
    /\ Len(detections) = 3
    /\ get_hair_strand_class_name(dict_get(detections[1], "class", <<>>)) = "unknown"
    /\ report.class_counts.strong = 1
    /\ report.class_counts.weak = 1
    /\ analysis_results # <<>>

\* C20: for every non-empty batch, the class counts of strong, medium and
\* weak add up to total_count.
C20_CountsSumToTotal ==
    (report_returned /\ detections # <<>>)
        => report.class_counts.strong + report.class_counts.medium
              + report.class_counts.weak = report.total_count

\* Witness of C20: a report of a batch with a weak detection and a detection
\* of no class.
C20_Witness ==
    /\ report_returned
    /\ Len(detections) >= 2
    /\ report.class_counts.weak >= 1
    /\ report.total_count < Len(detections)


\* C13: triangle_analysis.success_rate is the number of detections of the
\* batch with an orientation result, divided by the number of detections of
\* the batch, times 100.
C13_SuccessRate ==
    (pc = "batch_done" /\ "raised" \notin DOMAIN report /\ detections # <<>>)
        => report.triangle_analysis.success_rate[1] * Len(detections)
              = 100 * Len(analysis_results) * report.triangle_analysis.success_rate[2]

\* The predictions whose data is usable: a string label and a numeric
\* confidence.
pred_usable(pred) ==
    /\ "not_a_dict" \notin DOMAIN pred
    /\ pred.class # not_a_string
    /\ pred.confidence # not_a_number

\* C17: a failure caused by the data of one detection never fails the
\* batch: with a usable detection in the batch, a report is still produced,
\* and every other detection has the analysis result it has in a batch of
\* its own.
C17_PerItemIsolation ==
    (pc = "batch_done" /\ \E i \in 1..Len(predictions) : pred_usable(predictions[i]))
        => /\ "raised" \notin DOMAIN report
           /\ \A i \in 1..Len(detections) :
                 (\E alone \in process_detections(<<detections[i]>>) : alone # <<>>)
                    => \E k \in 1..Len(analysis_results) :
                          /\ analysis_results[k].detection_index = i - 1
                          /\ \E alone \in process_detections(<<detections[i]>>) :
                                analysis_results[k].triangle_vertices
                                   = alone[1].triangle_vertices

\* The detection an analysis result was computed from.
detection_of(r) == detections[r.detection_index + 1]

\* C21: a detection without polygon points and with a bounding box of
\* non-zero width and height is analysed on the 4 corners
\* (x +- width/2, y +- height/2) of the rectangle centred at (x, y); a
\* detection with polygon points is analysed on those points, not on its
\* bounding box.
C21_BboxFallback ==
    pc \in {"report", "batch_done"}
        => \A k \in 1..Len(analysis_results) :
              LET r == analysis_results[k]
                  d == detection_of(r)
              IN  IF d.points = <<>>
                  THEN /\ d.bbox.width # 0 /\ d.bbox.height # 0
                       /\ r.contour_points = 4
                       /\ \A v \in 1..3 :
                             /\ 2 * r.triangle_vertices[v][1]
                                   \in {2 * d.bbox.x - d.bbox.width,
                                        2 * d.bbox.x + d.bbox.width}
                             /\ 2 * r.triangle_vertices[v][2]
                                   \in {2 * d.bbox.y - d.bbox.height,
                                        2 * d.bbox.y + d.bbox.height}
                  ELSE /\ r.contour_points = Len(d.points)
                       /\ \A v \in 1..3 : \E n \in 1..Len(d.points) :
                             r.triangle_vertices[v] = <<d.points[n].x, d.points[n].y>>

\* Witness of C21: a batch analysed with one detection on the corners of its
\* 4 by 2 box and another on its polygon although it has a box as well.
C21_Witness ==
    /\ pc = "batch_done"
    /\ Len(analysis_results) = 2
    /\ detection_of(analysis_results[1]).points = <<>>
    /\ detection_of(analysis_results[1]).bbox.width = 4
    /\ detection_of(analysis_results[2]).points # <<>>
    /\ detection_of(analysis_results[2]).bbox.width = 10

C23_AtLeastThreshold ==
    pc = "process"
        => \A i \in 1..Len(detections) :
              detections[i].confidence # not_a_number
                 => detections[i].confidence >= confidence_threshold

\* C24: with requests handled concurrently, each request opens and sends to
\* inference the image it uploaded, and its temporary file holds that image
\* from save_temp_image until its own processing is over.
C24_OwnTemporaryImage ==
    \A r \in DOMAIN requests :
       /\ requests[r].opened \subseteq {r}
       /\ requests[r].inferred \subseteq {r}
       /\ requests[r].pc \in {"saved", "opened"} => temp_file = {r}

\* C25: in the answer of /api/process-image, the triangle and the arrow
\* attached to a detection are the ones computed from that detection's own
\* polygon, whatever the identifiers of the batch are.
C25_OwnTriangleAttached ==
    (pc = "responded" /\ response.status = 200)
        => \A n \in 1..Len(response.detections) :
              "triangle_vertices" \in DOMAIN response.detections[n]
                 => \E own \in process_detections(<<detections[n]>>) :
                       /\ own # <<>>
                       /\ own[1].triangle_vertices
                             = response.detections[n].triangle_vertices
                       /\ own[1].arrow_start_x2
                             = response.detections[n].arrow_start_x2
                       /\ own[1].arrow_end = response.detections[n].arrow_end

\* C26: in every report of a non-empty batch, successful_triangles is at
\* most total_count and success_rate lies between 0 and 100.
C26_SuccessWithinTotal ==
    (pc = "batch_done" /\ "raised" \notin DOMAIN report /\ detections # <<>>)
        => /\ report.triangle_analysis.successful_triangles <= report.total_count
           /\ 0 <= report.triangle_analysis.success_rate[1]
           /\ report.triangle_analysis.success_rate[1]
                 <= 100 * report.triangle_analysis.success_rate[2]

\* C27: when the workflow yields no detections, /api/process-image answers
\* with a success response that carries the zeroed "No detections found"
\* report.
C27_EmptyBatchAnswered ==
    (pc = "responded" /\ detections = <<>>)
        => /\ response.status = 200
           /\ response.success
           /\ response.analysis_report.total_count = 0
           /\ response.analysis_report.error = NoDetectionsFound

\* C28: in /api/benchmark, a result marked from_cache = true reports the
\* output of a run of the model that ran to completion successfully.
C28_CachedRunCompleted ==
    \A r \in DOMAIN benchmarks :
       (benchmarks[r].pc = "answered" /\ benchmarks[r].result.from_cache)
          => benchmarks[r].result.output = "complete"

\* C29: every triangle get_smallest_triangle returns has exactly 3 points,
\* each of them a point of the input contour, on every path.
C29_VerticesFromContour ==
    (returned /\ result # None)
        => /\ Len(result) = 3
           /\ \A i \in 1..3 : result[i] \in Range(contour)

\* Witness of C29: a triangle returned by the extreme-point fallback for a
\* contour of more than 3 distinct points.
C29_Witness ==
    /\ returned
    /\ result # None
    /\ path = "extreme"
    /\ Cardinality(Range(contour)) > 3

\* C30: for an input of at least 3 distinct points that are not all on one
\* line, the list convex_hull returns starts at the anchor (lowest y, then
\* lowest x), and every three consecutive vertices, the wrap-around from
\* the last vertex to the anchor included, make a strict left turn.
C30_HullStrictlyConvex ==
    (pc = "hull_done" /\ Cardinality(Range(hull_input)) >= 3
        /\ ~collinear_set(Range(hull_input)))
        => LET n == Len(hull_output)
           IN  /\ n >= 3
               /\ \A p \in Range(hull_input) :
                     \/ hull_output[1][2] < p[2]
                     \/ hull_output[1][2] = p[2] /\ hull_output[1][1] <= p[1]
               /\ \A i \in 1..n :
                     cross_product_2d(hull_output[i],
                                      hull_output[(i % n) + 1],
                                      hull_output[((i + 1) % n) + 1]) > 0

====
